---- MODULE Spec2Model ----
(***************************************************************************)
(* HiDocu schema initializer (create_db.py) and markdown importer          *)
(* (import_data.py).  Strings are sequences of Unicode code points.        *)
(***************************************************************************)
EXTENDS Integers, Sequences, FiniteSets, TLC

(* ------------------------------------------------------------------ *)
(* Characters                                                           *)
(* ------------------------------------------------------------------ *)
Space == 32
Hyphen == 45
Dot == 46
Slash == 47
Colon == 58
Underscore == 95
MaxControl == 31
MaxBytes == 255

\* "Untitled", ".md", "..", ".document"
Untitled == <<85, 110, 116, 105, 116, 108, 101, 100>>
MdExt == <<Dot, 109, 100>>
DotDot == <<Dot, Dot>>
DocumentExt == <<Dot, 100, 111, 99, 117, 109, 101, 110, 116>>

\* str.isspace()
IsSpace(c) ==
    \/ c \in 9..13
    \/ c \in 28..32
    \/ c \in {133, 160, 5760, 8232, 8233, 8239, 8287, 12288}
    \/ c \in 8192..8202

\* str.isdigit() on one character (ASCII digits; the alphabets below hold no others)
IsDigitChar(c) == c \in 48..57

\* number of bytes of one code point in UTF-8
Utf8Width(c) ==
    IF c < 128 THEN 1
    ELSE IF c < 2048 THEN 2
    ELSE IF c < 65536 THEN 3
    ELSE 4

\* len(s.encode('utf-8')): one byte per character, and one more for each
\* character that needs at least 2, 3, 4 bytes
Utf8Len(s) ==
    Len(s) + Cardinality({i \in 1..Len(s) : Utf8Width(s[i]) >= 2})
           + Cardinality({i \in 1..Len(s) : Utf8Width(s[i]) >= 3})
           + Cardinality({i \in 1..Len(s) : Utf8Width(s[i]) >= 4})

RECURSIVE Concat(_, _, _)
\* pieces[lo] \o ... \o pieces[hi]
Concat(pieces, lo, hi) ==
    IF lo > hi THEN <<>>
    ELSE IF lo = hi THEN pieces[lo]
    ELSE LET mid == (lo + hi) \div 2
         IN  Concat(pieces, lo, mid) \o Concat(pieces, mid + 1, hi)

\* old occurs in s at index i
OccursAt(s, old, i) ==
    /\ i >= 1
    /\ i + Len(old) - 1 <= Len(s)
    /\ \A k \in 1..Len(old) : s[i + k - 1] = old[k]

RECURSIVE MatchAt(_, _, _)
\* the left-to-right, non-overlapping scan of str.replace takes the occurrence at i:
\* no occurrence it has taken before covers index i
MatchAt(s, old, i) ==
    /\ OccursAt(s, old, i)
    /\ \A j \in (i - Len(old) + 1)..(i - 1) : ~(OccursAt(s, old, j) /\ MatchAt(s, old, j))

\* str.replace(old, new), old non-empty
Replace(s, old, new) ==
    LET piece(i) ==
            IF MatchAt(s, old, i) THEN new
            ELSE IF \E j \in (i - Len(old) + 1)..(i - 1) : MatchAt(s, old, j) THEN <<>>
            ELSE <<s[i]>>
    IN  Concat([i \in 1..Len(s) |-> piece(i)], 1, Len(s))

\* re.sub(r'[/:\x00-\x1f]', '-', s)
ReplaceForbidden(s) ==
    [i \in 1..Len(s) |->
        IF s[i] = Slash \/ s[i] = Colon \/ s[i] \in 0..MaxControl THEN Hyphen ELSE s[i]]

\* re.sub(r' +', ' ', s): of every run of U+0020 only the first space is kept
CollapseSpaces(s) ==
    LET piece(i) == IF s[i] = Space /\ i > 1 /\ s[i - 1] = Space THEN <<>> ELSE <<s[i]>>
    IN  Concat([i \in 1..Len(s) |-> piece(i)], 1, Len(s))

\* str.strip(): s without its leading and trailing whitespace
StripWhitespace(s) ==
    IF \A i \in 1..Len(s) : IsSpace(s[i]) THEN <<>>
    ELSE SubSeq(s,
                CHOOSE i \in 1..Len(s) : ~IsSpace(s[i]) /\ \A j \in 1..(i - 1) : IsSpace(s[j]),
                CHOOSE i \in 1..Len(s) : ~IsSpace(s[i]) /\ \A j \in (i + 1)..Len(s) : IsSpace(s[j]))

\* str.strip('.'): s without its leading and trailing dots
StripDots(s) ==
    IF \A i \in 1..Len(s) : s[i] = Dot THEN <<>>
    ELSE SubSeq(s,
                CHOOSE i \in 1..Len(s) : s[i] # Dot /\ \A j \in 1..(i - 1) : s[j] = Dot,
                CHOOSE i \in 1..Len(s) : s[i] # Dot /\ \A j \in (i + 1)..Len(s) : s[j] = Dot)

\* a truncation that counts characters where the code counts UTF-8 bytes
TruncateByChars(s) == IF Len(s) > MaxBytes THEN SubSeq(s, 1, MaxBytes) ELSE s

RECURSIVE Truncate(_)
\* while len(result.encode('utf-8')) > 255: result = result[:-1]
Truncate(s) ==
    IF Utf8Len(s) > MaxBytes THEN Truncate(SubSeq(s, 1, Len(s) - 1)) ELSE s

\* the fallback of sanitize_filename
Fallback(s) == IF s = <<>> THEN Untitled ELSE s

\* result.strip().strip('.')
Trim(s) == StripDots(StripWhitespace(s))

sanitize_filename(name) ==
    Fallback(Truncate(Trim(CollapseSpaces(ReplaceForbidden(Replace(name, DotDot, <<Underscore>>))))))

(* ------------------------------------------------------------------ *)
(* HiDocuImporter.clean_title                                           *)
(* ------------------------------------------------------------------ *)
\* str.upper() / str.lower() on one ASCII character
Upper(c) == IF c \in 97..122 THEN c - 32 ELSE c
Lower(c) == IF c \in 65..90 THEN c + 32 ELSE c

\* str.isdigit(): non-empty and every character a digit
IsDigit(s) == s # <<>> /\ \A i \in 1..Len(s) : IsDigitChar(s[i])

\* index of the first occurrence of c in s, 0 when there is none
Find(s, c) ==
    IF \E i \in 1..Len(s) : s[i] = c
    THEN CHOOSE i \in 1..Len(s) : s[i] = c /\ \A j \in 1..(i - 1) : s[j] # c
    ELSE 0

\* parts = name.split('_', 1); if len(parts) > 1 and parts[0].isdigit(): name = parts[1]
StripNumericPrefix(name) ==
    LET k == Find(name, Underscore)
    IN  IF k > 0 /\ IsDigit(SubSeq(name, 1, k - 1))
        THEN SubSeq(name, k + 1, Len(name))
        ELSE name

\* name.replace('_', ' ')
UnderscoresToSpaces(s) == [i \in 1..Len(s) |-> IF s[i] = Underscore THEN Space ELSE s[i]]

\* word.capitalize()
Capitalize(w) == [i \in 1..Len(w) |-> IF i = 1 THEN Upper(w[i]) ELSE Lower(w[i])]

\* the end of the first word of t, which starts with no whitespace
WordEnd(t) ==
    IF \E i \in 1..Len(t) : IsSpace(t[i])
    THEN (CHOOSE i \in 1..Len(t) : IsSpace(t[i]) /\ \A j \in 1..(i - 1) : ~IsSpace(t[j])) - 1
    ELSE Len(t)

RECURSIVE WordsOf(_)
\* the words of t, which starts with no whitespace
WordsOf(t) ==
    IF t = <<>> THEN <<>>
    ELSE <<SubSeq(t, 1, WordEnd(t))>>
         \o WordsOf(StripWhitespace(SubSeq(t, WordEnd(t) + 1, Len(t))))

\* str.split(): the maximal runs of non-whitespace characters
Words(s) == WordsOf(StripWhitespace(s))

RECURSIVE Join(_)
\* ' '.join(words)
Join(ws) ==
    IF ws = <<>> THEN <<>>
    ELSE IF Len(ws) = 1 THEN ws[1]
    ELSE ws[1] \o <<Space>> \o Join(Tail(ws))

\* name = filename.replace('.md', '')
RemoveExtension(filename) == Replace(filename, MdExt, <<>>)

\* ' '.join(word.capitalize() for word in words)
JoinCapitalized(words) == Join([i \in 1..Len(words) |-> Capitalize(words[i])])

clean_title(filename) ==
    JoinCapitalized(Words(UnderscoresToSpaces(StripNumericPrefix(RemoveExtension(filename)))))

(* ------------------------------------------------------------------ *)
(* Paths and names                                                      *)
(* ------------------------------------------------------------------ *)
\* parent / name, or name alone under an empty parent
JoinPath(parent, name) == IF parent = <<>> THEN name ELSE parent \o <<Slash>> \o name

\* str(Path(*parts)): the parts joined by '/'
PathStr(parts) == Concat([i \in 1..Len(parts) |-> IF i = 1 THEN parts[i] ELSE <<Slash>> \o parts[i]],
                         1, Len(parts))

RECURSIVE Decimal(_)
\* str(k) of a positive integer
Decimal(k) == IF k < 10 THEN <<48 + k>> ELSE Decimal(k \div 10) \o <<48 + (k % 10)>>

\* f"{sanitized}.document"
DocDirName(sanitized) == sanitized \o DocumentExt
\* f"{sanitized} {counter}.document"
DocDirNameN(sanitized, counter) == sanitized \o <<Space>> \o Decimal(counter) \o DocumentExt

\* s < t as Python compares strings: by code point, a proper prefix first
StrLess(s, t) ==
    \E k \in 1..Len(t) :
        /\ k <= Len(s) + 1
        /\ \A j \in 1..(k - 1) : s[j] = t[j]
        /\ (k = Len(s) + 1 \/ s[k] < t[k])

\* p < q as pathlib compares paths: part by part
PartsLess(p, q) ==
    \E k \in 1..Len(q) :
        /\ k <= Len(p) + 1
        /\ \A j \in 1..(k - 1) : p[j] = q[j]
        /\ (k = Len(p) + 1 \/ StrLess(p[k], q[k]))

\* s.endswith(suffix)
EndsWith(s, suffix) ==
    Len(s) >= Len(suffix) /\ SubSeq(s, Len(s) - Len(suffix) + 1, Len(s)) = suffix

\* the parts of a source file's path relative to the source directory
RelParts(f) == f.dir \o <<f.name>>

RECURSIVE SortFiles(_)
\* sorted(...) of a set of source files, by path
SortFiles(S) ==
    IF S = {} THEN <<>>
    ELSE LET m == CHOOSE f \in S : \A g \in S \ {f} : PartsLess(RelParts(f), RelParts(g))
         IN  <<m>> \o SortFiles(S \ {m})

\* sorted(source_dir.rglob("*.md"))
MdFiles(tree) == SortFiles({f \in tree : EndsWith(f.name, MdExt)})

(* ------------------------------------------------------------------ *)
(* create_db.py: the schema                                             *)
(* ------------------------------------------------------------------ *)
Tables ==
    {"folders", "documents", "recordings", "sources", "transcripts", "deletion_log",
     "document_token_cache", "folder_token_cache", "grdb_migrations"}
Indexes == {"idx_transcripts_single_primary"}
Migrations ==
    <<"v1_initial", "v2_context_management", "v3_cleanup", "v4_fix_sources_fk",
      "v5_deletion_log_timestamps", "v6_hierarchical_paths">>

\* parent_id / folder_id of None
NoId == 0

\* a database file that does not exist yet
NoDatabase ==
    [exists |-> FALSE, schema |-> {}, migrations |-> {},
     folders |-> {}, documents |-> {}, sources |-> {}, transcripts |-> {},
     deletion_log |-> {}, seq_folders |-> 0, seq_documents |-> 0]

\* the tables and the index in the order create_database creates them
SchemaObjects ==
    <<"folders", "documents", "recordings", "sources", "transcripts",
      "idx_transcripts_single_primary", "deletion_log", "document_token_cache",
      "folder_token_cache", "grdb_migrations">>

\* CREATE TABLE IF NOT EXISTS / CREATE UNIQUE INDEX IF NOT EXISTS, on r = [db, error]
CreateIfNotExists(r, object) ==
    [r EXCEPT !.db.schema = @ \cup {object}]

RECURSIVE CreateSchema(_, _)
\* the CREATE statements from the k-th on
CreateSchema(r, k) ==
    IF k > Len(SchemaObjects) THEN r
    ELSE CreateSchema(CreateIfNotExists(r, SchemaObjects[k]), k + 1)

\* a plain INSERT INTO grdb_migrations: the primary key rejects an identifier
\* that is already there
InsertMigration(r, identifier) ==
    IF identifier \in r.db.migrations THEN [r EXCEPT !.error = TRUE]
    ELSE [r EXCEPT !.db.migrations = @ \cup {identifier}]

\* INSERT OR IGNORE INTO grdb_migrations (identifier) VALUES (?), on r = [db, error]
InsertOrIgnoreMigration(r, identifier) ==
    [r EXCEPT !.db.migrations = @ \cup {identifier}]

RECURSIVE SeedMigrations(_, _)
\* for migration in migrations: INSERT OR IGNORE ...; an error ends the loop
SeedMigrations(r, k) ==
    IF k > Len(Migrations) \/ r.error THEN r
    ELSE SeedMigrations(InsertOrIgnoreMigration(r, Migrations[k]), k + 1)

\* conn.commit() after the inserts; without it (an exception) they are rolled back,
\* while the CREATE statements, run outside a transaction, stay
Commit(r, before) ==
    IF r.error THEN [r EXCEPT !.db.migrations = before.migrations] ELSE r

\* create_database on the database file d; the result is [db, error]
create_database(d) ==
    Commit(SeedMigrations(CreateSchema([db |-> [d EXCEPT !.exists = TRUE], error |-> FALSE], 1), 1), d)

(* ------------------------------------------------------------------ *)
(* import_data.py: folders                                              *)
(* ------------------------------------------------------------------ *)
\* Path.mkdir(parents=True, exist_ok=True): the directory and its ancestors
MkdirParents(dirs, path) ==
    dirs \cup {path} \cup {SubSeq(path, 1, k - 1) : k \in {j \in 1..Len(path) : path[j] = Slash}}

\* the INSERT and mkdir of create_folder, on st = [db, dirs, folder_map]
InsertFolder(st, name, parent_id, disk_path, db_only) ==
    [db |-> [st.db EXCEPT
                !.folders = @ \cup {[id |-> st.db.seq_folders + 1, parent_id |-> parent_id,
                                     name |-> name, disk_path |-> disk_path]},
                !.seq_folders = @ + 1],
     dirs |-> IF db_only THEN st.dirs ELSE MkdirParents(st.dirs, disk_path),
     folder_map |-> st.folder_map,
     folder_id |-> st.db.seq_folders + 1,
     disk_path |-> disk_path]

\* create_folder: the row is inserted and committed, the directory made unless
\* db_only; the result adds folder_id and disk_path
create_folder(st, name, parent_id, parent_disk_path, db_only) ==
    InsertFolder(st, name, parent_id, JoinPath(parent_disk_path, sanitize_filename(name)), db_only)

\* a folder c that is created and not remembered in folder_map
Forget(c, path_str) == c

\* self.folder_map[path_str] = (folder_id, disk_path), for the folder c just created
Memoize(c, path_str) ==
    [c EXCEPT !.folder_map = @ @@ (path_str :> <<c.folder_id, c.disk_path>>)]

\* one step of the loop of get_or_create_folder_hierarchy: the folder of path_str,
\* looked up in folder_map or created
FolderStep(st, path_str, part, parent_id, parent_disk_path, db_only) ==
    IF path_str \notin DOMAIN st.folder_map
    THEN Memoize(create_folder(st, part, parent_id, parent_disk_path, db_only), path_str)
    ELSE [db |-> st.db, dirs |-> st.dirs, folder_map |-> st.folder_map,
          folder_id |-> st.folder_map[path_str][1],
          disk_path |-> st.folder_map[path_str][2]]

RECURSIVE FolderLoop(_, _, _, _)
\* the loop of get_or_create_folder_hierarchy from part i on; st holds the parent's
\* folder_id and disk_path
FolderLoop(st, parts, i, db_only) ==
    IF i > Len(parts) THEN st
    ELSE FolderLoop(FolderStep(st, PathStr(SubSeq(parts, 1, i)), parts[i],
                               st.folder_id, st.disk_path, db_only),
                    parts, i + 1, db_only)

\* get_or_create_folder_hierarchy; an empty rel_path (Path('.')) gives (None, "")
get_or_create_folder_hierarchy(st, parts, db_only) ==
    FolderLoop([db |-> st.db, dirs |-> st.dirs, folder_map |-> st.folder_map,
                folder_id |-> NoId, disk_path |-> <<>>], parts, 1, db_only)

(* ------------------------------------------------------------------ *)
(* import_data.py: documents                                            *)
(* ------------------------------------------------------------------ *)
RECURSIVE FreeDiskPath(_, _, _, _, _)
\* while (self.data_dir / disk_path).exists(): try the name with the next counter
FreeDiskPath(dirs, folder_disk_path, sanitized, disk_path, counter) ==
    IF disk_path \in dirs
    THEN FreeDiskPath(dirs, folder_disk_path, sanitized,
                      JoinPath(folder_disk_path, DocDirNameN(sanitized, counter)), counter + 1)
    ELSE disk_path

\* create_document without its while loop: the first candidate whatever exists
FirstCandidate(dirs, folder_disk_path, sanitized, db_only) ==
    JoinPath(folder_disk_path, DocDirName(sanitized))

\* the first candidate, and with files to create the first free one
FirstFree(dirs, folder_disk_path, sanitized, db_only) ==
    IF db_only THEN JoinPath(folder_disk_path, DocDirName(sanitized))
    ELSE FreeDiskPath(dirs, folder_disk_path, sanitized,
                      JoinPath(folder_disk_path, DocDirName(sanitized)), 2)

\* the disk_path create_document settles on
DocDiskPath(dirs, folder_disk_path, title, db_only) ==
    FirstFree(dirs, folder_disk_path, sanitize_filename(title), db_only)

\* "sources"
SourcesDir == <<115, 111, 117, 114, 99, 101, 115>>

\* a file written into a directory: f with f[path] = content
WriteText(f, path, content) ==
    [p \in DOMAIN f \cup {path} |-> IF p = path THEN content ELSE f[p]]

\* create_document from the INSERT on, on st = [db, dirs, body, meta]; the result adds
\* status: "ok", or the exception raised (then nothing is committed or written)
InsertDocument(st, disk_path, title, folder_id, content, created_at, db_only) ==
    IF \E r \in st.db.documents : r.disk_path = disk_path
    THEN [status |-> "IntegrityError", db |-> st.db, dirs |-> st.dirs,
          body |-> st.body, meta |-> st.meta]
    ELSE IF db_only /\ disk_path \notin st.dirs
    THEN [status |-> "FileNotFoundError", db |-> st.db, dirs |-> st.dirs,
          body |-> st.body, meta |-> st.meta]
    ELSE [status |-> "ok",
          db |-> [st.db EXCEPT
                    !.documents = @ \cup {[id |-> st.db.seq_documents + 1,
                                           folder_id |-> folder_id, title |-> title,
                                           disk_path |-> disk_path,
                                           created_at |-> created_at]},
                    !.seq_documents = @ + 1],
          dirs |-> IF db_only THEN st.dirs
                   ELSE MkdirParents(st.dirs, disk_path)
                        \cup {JoinPath(disk_path, SourcesDir)},
          body |-> IF db_only THEN st.body ELSE WriteText(st.body, disk_path, content),
          meta |-> WriteText(st.meta, disk_path,
                             [id |-> st.db.seq_documents + 1, title |-> title,
                              created |-> created_at])]

create_document(st, title, folder_id, content, created_at, folder_disk_path, db_only) ==
    InsertDocument(st, DocDiskPath(st.dirs, folder_disk_path, title, db_only),
                   title, folder_id, content, created_at, db_only)

\* a created_at that counts the minutes down from the first file on
CreatedAtCountdown(file_mtime, n_files, i) == file_mtime - i

\* created_at = file_mtime - timedelta(minutes=len(md_files) - i), i counted from 0
CreatedAt(file_mtime, n_files, i) == file_mtime - (n_files - i)

(* ------------------------------------------------------------------ *)
(* import_data.py: the destructive reset                                *)
(* ------------------------------------------------------------------ *)
\* a reset that deletes the documents and the folders only
delete_documents_and_folders(d) ==
    [d EXCEPT !.documents = {}, !.folders = {}]

\* clear_database: DELETE FROM transcripts, sources, documents, folders, deletion_log
clear_database(d) ==
    [d EXCEPT !.transcripts = {}, !.sources = {}, !.documents = {}, !.folders = {},
              !.deletion_log = {}]

\* the first part of a relative path: the entry of data_dir that holds it
TopLevel(path) ==
    IF \E j \in 1..Len(path) : path[j] = Slash
    THEN SubSeq(path, 1, (CHOOSE j \in 1..Len(path) :
                            path[j] = Slash /\ \A k \in 1..(j - 1) : path[k] # Slash) - 1)
    ELSE path

\* item.is_dir() and not item.name.startswith('.'), of a top-level directory
IsCleared(item) == ~(Len(item) >= 1 /\ item[1] = Dot)

\* clear_filesystem: shutil.rmtree of every non-hidden top-level directory
clear_filesystem(paths) == {p \in paths : ~IsCleared(TopLevel(p))}

(* ------------------------------------------------------------------ *)
(* State                                                                *)
(* ------------------------------------------------------------------ *)
VARIABLES
    fn_pc,      \* position of a call of a pure function: "call" or "done"
    fn_in,      \* its argument
    fn_out,     \* its return value
    tree,       \* the files under --source-dir
    db,         \* target -> the database file at that location
    dirs,       \* the directories under the data directory, as relative paths
    body,       \* bundle directory -> the content of its body.md (summary.md is empty)
    meta,       \* directory -> the content of its metadata.yaml
    created,    \* target -> the runs of create_db.py on it, and whether one raised
    run         \* the run of import_data.py main: its locals and position

fn_vars == <<fn_pc, fn_in, fn_out>>
main_vars == <<tree, db, dirs, body, meta, created, run>>
vars == <<fn_pc, fn_in, fn_out, tree, db, dirs, body, meta, created, run>>

(* ------------------------------------------------------------------ *)
(* Bounds and inputs of the importer                                    *)
(* ------------------------------------------------------------------ *)
MaxFiles == 3
MaxRuns == 2
MaxCreates == 2

\* the database locations main can find (DB_LOCATIONS), in order
Targets == {1, 2}
\* what choose_db_paths can return: one location, or all of them
TargetLists == {<<1>>, <<2>>, <<1, 2>>}

\* modification times, in minutes
Mtime == 100
LaterMtime == 107

\* candidate source files: "1_x.md", "2_x.md" and "0_x_2.md" in the source root
\* (titles X, X, X 2), an unreadable "1_y.md", "y.md" in the sibling directories
\* "a-b" and "a:b", and "z.md" in "a-b/c"
FilePool ==
    { [dir |-> <<>>, name |-> <<49, 95, 120>> \o MdExt, readable |-> TRUE, mtime |-> Mtime],
      [dir |-> <<>>, name |-> <<50, 95, 120>> \o MdExt, readable |-> TRUE, mtime |-> Mtime],
      [dir |-> <<>>, name |-> <<48, 95, 120, 95, 50>> \o MdExt, readable |-> TRUE, mtime |-> Mtime],
      [dir |-> <<>>, name |-> <<49, 95, 121>> \o MdExt, readable |-> FALSE, mtime |-> Mtime],
      [dir |-> << <<97, 45, 98>> >>, name |-> <<121>> \o MdExt, readable |-> TRUE, mtime |-> Mtime],
      [dir |-> << <<97, 58, 98>> >>, name |-> <<121>> \o MdExt, readable |-> TRUE, mtime |-> Mtime],
      [dir |-> << <<97, 45, 98>>, <<99>> >>, name |-> <<122>> \o MdExt, readable |-> TRUE,
       mtime |-> LaterMtime] }

\* a file rglob("*.md") does not match: "n.txt"
OtherFile == [dir |-> <<>>, name |-> <<110, Dot, 116, 120, 116>>, readable |-> TRUE, mtime |-> Mtime]

\* md_file.read_text(): the content of a readable file (here its name)
Content(f) == f.name

\* a hidden directory of the data directory: ".t"
HiddenDir == <<Dot, 116>>

Trees == {S \cup {OtherFile} : S \in {T \in SUBSET FilePool : Cardinality(T) <= MaxFiles}}

\* the locals of main before a run
NoRun ==
    [pc |-> "idle", n |-> 0, targets |-> <<>>, clear |-> FALSE, source_exists |-> TRUE,
     ti |-> 1, files_created |-> FALSE, filesystem_cleared |-> FALSE, db_only |-> FALSE,
     conn |-> NoId, folder_map |-> <<>>, md_files |-> <<>>, i |-> 0,
     exiting |-> FALSE, exit_code |-> 0]

Init ==
    /\ fn_pc = "idle" /\ fn_in = <<>> /\ fn_out = <<>>
    /\ tree \in Trees
    /\ db = [t \in Targets |-> NoDatabase]
    /\ dirs = {}
    /\ body = <<>>
    /\ meta = <<>>
    /\ created = [t \in Targets |-> [runs |-> 0, error |-> FALSE]]
    /\ run = NoRun

\* no script is running
Idle == run.pc \in {"idle", "exit"}
\* the target the loop of main is at
Target == run.targets[run.ti]

(* ------------------------------------------------------------------ *)
(* create_db.py                                                         *)
(* ------------------------------------------------------------------ *)
\* the outcome of one run of create_db.py on target t
Ran(t, r) ==
    /\ db' = [db EXCEPT ![t] = r.db]
    /\ created' = [created EXCEPT ![t] = [runs |-> @.runs + 1, error |-> r.error]]

CreateDatabase(t) ==
    /\ Idle
    /\ created[t].runs < MaxCreates
    /\ Ran(t, create_database(db[t]))
    /\ UNCHANGED <<fn_vars, tree, dirs, body, meta, run>>

\* the application at work on a database between two runs of the importer: a source
\* and its transcript attached to the oldest document, a deletion logged, and a hidden
\* directory left in the data directory
AppActivity(t) ==
    /\ Idle
    /\ db[t].exists
    /\ db[t].sources = {}
    /\ \E d \in db[t].documents :
          /\ \A e \in db[t].documents : d.id <= e.id
          /\ db' = [db EXCEPT ![t].sources = {[id |-> 1, document_id |-> d.id]},
                              ![t].transcripts = {[id |-> 1, source_id |-> 1]},
                              ![t].deletion_log = {[id |-> 1, document_id |-> d.id]}]
    /\ dirs' = dirs \cup {HiddenDir}
    /\ UNCHANGED <<fn_vars, tree, body, meta, created, run>>

(* ------------------------------------------------------------------ *)
(* import_data.py: main                                                 *)
(* ------------------------------------------------------------------ *)
\* argument parsing and target resolution, up to the loop over db_targets
MainStart(targets, clear, source_exists) ==
    /\ Idle
    /\ run.n < MaxRuns
    /\ \A k \in 1..Len(targets) : db[targets[k]].exists
    /\ run' = [NoRun EXCEPT !.pc = "target", !.n = run.n + 1, !.targets = targets,
                            !.clear = clear, !.source_exists = source_exists]
    /\ UNCHANGED <<fn_vars, tree, db, dirs, body, meta, created>>

\* importer = HiDocuImporter(db_path, data_dir, db_only=files_created); importer.connect()
Connect ==
    /\ run.pc = "target"
    /\ run' = [run EXCEPT !.pc = "connected", !.db_only = run.files_created,
                          !.folder_map = <<>>, !.conn = Target]
    /\ UNCHANGED <<fn_vars, tree, db, dirs, body, meta, created>>

\* if args.clear: clear_database(), and clear_filesystem() for the first target
Clear ==
    /\ run.pc = "connected"
    /\ run.clear
    /\ db' = [db EXCEPT ![Target] = clear_database(@)]
    /\ IF run.filesystem_cleared
       THEN UNCHANGED <<dirs, body, meta>>
       ELSE /\ dirs' = clear_filesystem(dirs)
            /\ body' = [p \in clear_filesystem(DOMAIN body) |-> body[p]]
            /\ meta' = [p \in clear_filesystem(DOMAIN meta) |-> meta[p]]
    /\ run' = [run EXCEPT !.pc = "cleared", !.filesystem_cleared = TRUE]
    /\ UNCHANGED <<fn_vars, tree, created>>

\* import_directory up to its loop: the source check, the sorted file list
ImportBegin ==
    /\ run.pc = "cleared" \/ (run.pc = "connected" /\ ~run.clear)
    /\ LET md_files == MdFiles(tree)
       IN  run' = IF ~run.source_exists THEN [run EXCEPT !.pc = "except"]
                  ELSE IF md_files = <<>> THEN [run EXCEPT !.pc = "imported"]
                  ELSE [run EXCEPT !.pc = "import", !.md_files = md_files, !.i = 0]
    /\ UNCHANGED <<fn_vars, tree, db, dirs, body, meta, created>>

\* after the body of the loop: the next file, or the end of import_directory
NextFile(r) ==
    IF r.i + 1 = Len(r.md_files) THEN [r EXCEPT !.pc = "imported", !.i = r.i + 1]
    ELSE [r EXCEPT !.i = r.i + 1]

\* a read error that is not caught: it leaves import_directory
OnReadRaise(r) == [r EXCEPT !.pc = "except"]

\* except Exception as e: print ERROR reading; continue
OnReadError(r) == NextFile(r)

\* the folder hierarchy of md_file, on the state the iteration starts in
FileFolder(md_file) ==
    get_or_create_folder_hierarchy(
        [db |-> db[Target], dirs |-> dirs, folder_map |-> run.folder_map],
        md_file.dir, run.db_only)

\* the document of md_file, created in its folder h
FileDocument(md_file, h) ==
    create_document([db |-> h.db, dirs |-> h.dirs, body |-> body, meta |-> meta],
                    clean_title(md_file.name), h.folder_id, Content(md_file),
                    CreatedAt(md_file.mtime, Len(run.md_files), run.i),
                    h.disk_path, run.db_only)

\* the state after an unreadable file: the folders of h, nothing else
Skipped(h) ==
    /\ db' = [db EXCEPT ![Target] = h.db]
    /\ dirs' = h.dirs
    /\ run' = OnReadError([run EXCEPT !.folder_map = h.folder_map])
    /\ UNCHANGED <<body, meta>>

\* the state after create_document returned c, or raised
Created(c, folder_map) ==
    /\ db' = [db EXCEPT ![Target] = c.db]
    /\ dirs' = c.dirs
    /\ body' = c.body
    /\ meta' = c.meta
    /\ run' = IF c.status = "ok" THEN NextFile([run EXCEPT !.folder_map = folder_map])
              ELSE [run EXCEPT !.folder_map = folder_map, !.pc = "except"]

\* the body of the loop after the folder hierarchy h: read, then create
ReadAndCreate(md_file, h) ==
    IF ~md_file.readable THEN Skipped(h)
    ELSE Created(FileDocument(md_file, h), h.folder_map)

\* one iteration of the loop of import_directory, for md_files[i] (i counted from 0)
ImportFile ==
    /\ run.pc = "import"
    /\ ReadAndCreate(run.md_files[run.i + 1], FileFolder(run.md_files[run.i + 1]))
    /\ UNCHANGED <<fn_vars, tree, created>>

\* import_directory returned: files_created = True
Imported ==
    /\ run.pc = "imported"
    /\ run' = [run EXCEPT !.pc = "finally", !.files_created = TRUE]
    /\ UNCHANGED <<fn_vars, tree, db, dirs, body, meta, created>>

\* an except clause that prints and lets the loop over the targets go on
OnExceptionContinue(r) == [r EXCEPT !.pc = "finally"]

\* except Exception as e: print, traceback, sys.exit(1) (the exit passes through finally)
OnException(r) == [r EXCEPT !.pc = "finally", !.exiting = TRUE, !.exit_code = 1]

Except ==
    /\ run.pc = "except"
    /\ run' = OnException(run)
    /\ UNCHANGED <<fn_vars, tree, db, dirs, body, meta, created>>

\* finally: importer.close(); then the process exits, or the loop goes on
OnFinally(r) ==
    IF r.exiting \/ r.ti = Len(r.targets)
    THEN [r EXCEPT !.pc = "exit", !.conn = NoId]
    ELSE [r EXCEPT !.pc = "target", !.conn = NoId, !.ti = r.ti + 1]

Finally ==
    /\ run.pc = "finally"
    /\ run' = OnFinally(run)
    /\ UNCHANGED <<fn_vars, tree, db, dirs, body, meta, created>>

Next ==
    \/ \E t \in Targets : ~db[t].exists /\ CreateDatabase(t)
    \/ \E t \in Targets : AppActivity(t)
    \/ \E targets \in TargetLists, clear \in BOOLEAN, source_exists \in BOOLEAN :
          MainStart(targets, clear, source_exists)
    \/ Connect
    \/ Clear
    \/ ImportBegin
    \/ ImportFile
    \/ Imported
    \/ Except
    \/ Finally

Spec == Init /\ [][Next]_vars

(* ------------------------------------------------------------------ *)
(* Properties of the importer                                           *)
(* ------------------------------------------------------------------ *)
\* the number of readable files among files
ReadableCount(files) == Cardinality({k \in 1..Len(files) : files[k].readable})

\* the sanitized title create_document derives for a source file
BundleTitle(f) == sanitize_filename(clean_title(f.name))

\* the disk_path of the folder row with this id in database d ("" for no folder)
FolderDiskPath(d, folder_id) ==
    IF folder_id = 0 THEN <<>>
    ELSE (CHOOSE f \in d.folders : f.id = folder_id).disk_path

\* the k-th bundle name for a sanitized title: X.document, X 2.document, X 3.document
BundleName(X, k) ==
    IF k = 1 THEN X \o <<46, 100, 111, 99, 117, 109, 101, 110, 116>>
    ELSE X \o <<32>> \o Decimal(k) \o <<46, 100, 111, 99, 117, 109, 101, 110, 116>>

\* C1: for every source tree imported by main into two database targets in one run
\* (first target with db_only=False, second with db_only=True), each document's
\* body.md and summary.md are written exactly once (only while processing the first
\* target), the second target's import completes with one document row per readable
\* source file, and after a target has been processed every bundle's metadata.yaml
\* holds the row id that this target's database assigned to the document stored in
\* that bundle.  Stated for the first run of main (the databases and the data
\* directory hold nothing yet) on a source tree whose files all lie in the source root.
C1_FanOut ==
    [][ (run'.n = 1 /\ run'.targets = <<1, 2>> /\ run'.source_exists
            /\ \A f \in tree : f.dir = <<>>) =>
          /\ (run.pc = "import" /\ run.db_only) => body' = body
          /\ \A p \in DOMAIN body : p \in DOMAIN body' /\ body'[p] = body[p]
          /\ (run'.pc = "finally" /\ ~run'.exiting) =>
                /\ Cardinality(db'[run'.targets[run'.ti]].documents)
                      = ReadableCount(MdFiles(tree))
                /\ \A r \in db'[run'.targets[run'.ti]].documents :
                      r.disk_path \in DOMAIN body'
                /\ \A p \in DOMAIN body' :
                      \E r \in db'[run'.targets[run'.ti]].documents :
                          r.disk_path = p /\ meta'[p].id = r.id
          /\ run'.pc = "exit" => run'.exit_code = 0
      ]_vars

\* C2 as stated: in an import that materializes files into an initially empty data
\* directory, of the source files of one folder that yield the same sanitized title
\* X the first gets the bundle X.document and the k-th gets X k.document, and the
\* bundle exists afterwards.  Stated for the files in the source root, in the first
\* run of main.
C2_Original ==
    [][ (run.pc = "import" /\ ~run.db_only /\ run.n = 1
            /\ run.md_files[run.i + 1].readable /\ run.md_files[run.i + 1].dir = <<>>) =>
          \E r \in db'[Target].documents \ db[Target].documents :
              /\ r.disk_path =
                    BundleName(BundleTitle(run.md_files[run.i + 1]),
                               Cardinality({j \in 1..(run.i + 1) :
                                   /\ run.md_files[j].readable
                                   /\ run.md_files[j].dir = <<>>
                                   /\ BundleTitle(run.md_files[j])
                                        = BundleTitle(run.md_files[run.i + 1])}))
              /\ r.disk_path \in dirs'
      ]_vars

\* C2 as amended: in an import that materializes files, every create_document that
\* returns gives the document the first name among X.document, X 2.document,
\* X 3.document, ... that does not exist yet in its folder's directory (X the
\* sanitized title); afterwards that bundle directory exists with its body, and no
\* two rows of the documents table have the same disk_path.
C2_FirstFreeName ==
    [][ (run.pc = "import" /\ ~run.db_only /\ run.md_files[run.i + 1].readable
            /\ run'.pc # "except") =>
          /\ Cardinality(db'[Target].documents \ db[Target].documents) = 1
          /\ \A r \in db'[Target].documents \ db[Target].documents :
                LET X == BundleTitle(run.md_files[run.i + 1])
                    folder == FolderDiskPath(db'[Target], r.folder_id)
                IN  /\ \E k \in 1..(Cardinality(dirs) + 1) :
                          /\ r.disk_path = JoinPath(folder, BundleName(X, k))
                          /\ r.disk_path \notin dirs
                          /\ \A j \in 1..(k - 1) : JoinPath(folder, BundleName(X, j)) \in dirs
                    /\ r.disk_path \in dirs'
                    /\ r.disk_path \in DOMAIN body'
          /\ \A r1, r2 \in db'[Target].documents : r1.disk_path = r2.disk_path => r1 = r2
      ]_vars

\* C2 witness: two files of the source root with the same title were imported; their
\* bundles X.document and X 2.document exist and two rows point at them
C2_Witness ==
    /\ run.pc = "imported" /\ ~run.db_only
    /\ \E r1, r2 \in db[Target].documents :
          /\ r1.id # r2.id /\ r1.title = r2.title
          /\ r1.disk_path = BundleName(sanitize_filename(r1.title), 1)
          /\ r2.disk_path = BundleName(sanitize_filename(r2.title), 2)
          /\ {r1.disk_path, r2.disk_path} \subseteq dirs

\* C4: after any import run, no two folder rows that have the same parent_id
\* (including both null) have the same disk_path.  Stated for the first run of main,
\* into databases that hold no folder yet.
C4_FolderPathsUnique ==
    run.n = 1 =>
        \A t \in Targets : \A f, g \in db[t].folders :
            (f.parent_id = g.parent_id /\ f.disk_path = g.disk_path) => f = g

\* all matching source files have the same modification time
SameMtime == \A j, k \in 1..Len(run.md_files) : run.md_files[j].mtime = run.md_files[k].mtime

Hidden(p) == ~IsCleared(TopLevel(p))

\* C6: after clear_database and clear_filesystem have run on a target, from any state
\* earlier imports produced, the transcripts, sources, documents, folders and
\* deletion_log tables are empty and no bundle or folder directory is left in the data
\* directory; the import_directory that follows does not fail and yields exactly one
\* document row per readable source file, each with its bundle on disk and its id in
\* the bundle's metadata, and no other row or bundle.
C6_ClearThenImport ==
    /\ (run.pc = "cleared" /\ run.ti = 1) =>
          /\ db[Target].transcripts = {} /\ db[Target].sources = {}
          /\ db[Target].documents = {} /\ db[Target].folders = {}
          /\ db[Target].deletion_log = {}
          /\ \A p \in dirs \cup DOMAIN body \cup DOMAIN meta : Hidden(p)
    /\ (run.clear /\ run.ti = 1 /\ run.source_exists) => run.pc # "except"
    /\ (run.pc = "imported" /\ run.clear /\ run.ti = 1) =>
          /\ Cardinality(db[Target].documents) = ReadableCount(MdFiles(tree))
          /\ Cardinality({r.disk_path : r \in db[Target].documents})
                = ReadableCount(MdFiles(tree))
          /\ \A r \in db[Target].documents :
                /\ r.disk_path \in dirs
                /\ r.disk_path \in DOMAIN body
                /\ meta[r.disk_path].id = r.id
          /\ DOMAIN body = {r.disk_path : r \in db[Target].documents}
          /\ DOMAIN meta = DOMAIN body
          /\ \A f \in db[Target].folders : f.disk_path \in dirs
          /\ \A p \in dirs :
                \/ Hidden(p)
                \/ \E f \in db[Target].folders : f.disk_path = p
                \/ \E r \in db[Target].documents :
                      p \in {r.disk_path, JoinPath(r.disk_path, SourcesDir)}

\* C6 witness: a second run of main with --clear has imported into a database and a
\* data directory that an earlier import and the application had filled
C6_Witness ==
    /\ run.pc = "imported" /\ run.clear /\ run.ti = 1 /\ run.n = 2
    /\ db[Target].documents # {}
    /\ db[Target].seq_documents > Cardinality(db[Target].documents)
    /\ HiddenDir \in dirs

\* C7: when reading a source file raises an error, import_directory creates no
\* document row and no bundle for it (at most the directories of its folders), does
\* not raise, and goes on with the next file of the sorted list, or returns after the
\* last; the rows already committed stay.
C7_ReadErrorSkipped ==
    [][ (run.pc = "import" /\ ~run.md_files[run.i + 1].readable) =>
          /\ \A t \in Targets : db'[t].documents = db[t].documents
          /\ body' = body /\ meta' = meta
          /\ \A p \in dirs' \ dirs : \E f \in db'[Target].folders : f.disk_path = p
          /\ run'.md_files = run.md_files
          /\ run'.i = run.i + 1
          /\ run'.pc = IF run.i + 1 < Len(run.md_files) THEN "import" ELSE "imported"
          /\ run'.exit_code = 0
      ]_vars

\* C7 witness: an unreadable file has just been skipped, with rows of earlier files in
\* the table and a later file still to come
C7_Witness ==
    /\ run.pc = "import" /\ run.i >= 2
    /\ ~run.md_files[run.i].readable
    /\ run.md_files[run.i + 1].readable
    /\ db[Target].documents # {}

\* C8: when the import into one target raises, the process exits with a non-zero
\* status; from the exception to the exit no target is connected to, cleared or
\* imported into (the loop stays at the failing target, databases and data directory
\* do not change), and the connection is closed when the process exits.
C8_AbortOnFailure ==
    [][ /\ run.pc = "except" =>
              run'.pc = "finally" /\ run'.exiting /\ run'.exit_code # 0
        /\ (run.exiting /\ run.pc # "exit") =>
              /\ run'.pc = "exit" /\ run'.exit_code # 0 /\ run'.conn = NoId
              /\ run'.ti = run.ti
              /\ db' = db /\ dirs' = dirs /\ body' = body /\ meta' = meta
      ]_vars

\* C8 witness: a run on two targets has exited with status 1 at its first target, the
\* connection closed
C8_Witness ==
    /\ run.pc = "exit" /\ run.exiting /\ run.exit_code = 1
    /\ Len(run.targets) = 2 /\ run.ti = 1
    /\ run.conn = NoId

\* the source-relative directory paths (as parts) that are the parent or an ancestor
\* of one of the first n files of the sorted list
FolderPaths(files, n) ==
    UNION {{SubSeq(files[j].dir, 1, k) : k \in 1..Len(files[j].dir)} : j \in 1..n}

\* the folder_id memoized for a directory path, None for the source root
MemoizedId(folder_map, parts) ==
    IF parts = <<>> THEN NoId ELSE folder_map[PathStr(parts)][1]

\* C11: within one import run on one importer, each distinct source-relative directory
\* path that is the parent or an ancestor of a matching file gets exactly one folder
\* row, however many files lie under it: an iteration adds one row for every such
\* path of its file that no earlier file had, and none for the others; the row of a
\* path has the directory's name and as parent_id the id of the row made for the
\* parent directory, null for a top-level directory; a file directly in the source
\* root creates no folder row and its document has folder_id null.
C11_FolderMemoization ==
    [][ run.pc = "import" =>
          /\ db[Target].folders \subseteq db'[Target].folders
          /\ Cardinality(db'[Target].folders \ db[Target].folders)
                = Cardinality(FolderPaths(run.md_files, run.i + 1)
                                \ FolderPaths(run.md_files, run.i))
          /\ DOMAIN run'.folder_map
                = {PathStr(p) : p \in FolderPaths(run.md_files, run.i + 1)}
          /\ run.i = 0 => run.folder_map = <<>>
          /\ \A p \in FolderPaths(run.md_files, run.i + 1) :
                /\ Cardinality({f \in db'[Target].folders :
                                   f.id = MemoizedId(run'.folder_map, p)}) = 1
                /\ \A f \in db'[Target].folders :
                      f.id = MemoizedId(run'.folder_map, p) =>
                        /\ f.name = p[Len(p)]
                        /\ f.parent_id
                             = MemoizedId(run'.folder_map, SubSeq(p, 1, Len(p) - 1))
                /\ \A q \in FolderPaths(run.md_files, run.i + 1) :
                      MemoizedId(run'.folder_map, p) = MemoizedId(run'.folder_map, q)
                        => p = q
                /\ p \in FolderPaths(run.md_files, run.i) =>
                      /\ run'.folder_map[PathStr(p)] = run.folder_map[PathStr(p)]
                      /\ \E f \in db[Target].folders :
                            f.id = MemoizedId(run.folder_map, p)
          /\ \A r \in db'[Target].documents \ db[Target].documents :
                r.folder_id = MemoizedId(run'.folder_map, run.md_files[run.i + 1].dir)
          /\ run.md_files[run.i + 1].dir = <<>> =>
                db'[Target].folders = db[Target].folders
      ]_vars

\* C11 witness: an import is over in which two files lay under one directory, one of
\* them in a subdirectory, and one file in the source root: two folder rows, the
\* subdirectory's with the directory's row as parent, and a document without folder
C11_Witness ==
    /\ run.pc = "imported" /\ run.n = 1
    /\ Cardinality(db[Target].folders) = 2
    /\ Cardinality(DOMAIN run.folder_map) = 2
    /\ \E f, g \in db[Target].folders : f.parent_id = NoId /\ g.parent_id = f.id
    /\ \E r1, r2, r3 \in db[Target].documents :
          /\ r1.folder_id = NoId
          /\ r2.folder_id # NoId /\ r3.folder_id # NoId /\ r2.folder_id # r3.folder_id

\* C12: a run of main on a source directory that does not exist leaves every target
\* database and the data directory as they were, also with --clear, and exits with a
\* non-zero status.
C12_MissingSourceUnchanged ==
    [][ (~Idle /\ ~run.source_exists) =>
          /\ db' = db
          /\ dirs' = dirs /\ body' = body /\ meta' = meta
          /\ run'.pc = "exit" => run'.exit_code # 0
      ]_vars

(* ------------------------------------------------------------------ *)
(* Runs of create_db.py alone                                           *)
(* ------------------------------------------------------------------ *)
\* what an interrupted or earlier run of create_db.py leaves: the first k objects of
\* the schema, or the whole schema and the first j identifiers
DatabaseFiles ==
    {NoDatabase}
    \cup {[NoDatabase EXCEPT !.exists = TRUE,
                             !.schema = {SchemaObjects[i] : i \in 1..k}] :
            k \in 0..Len(SchemaObjects)}
    \cup {[NoDatabase EXCEPT !.exists = TRUE,
                             !.schema = {SchemaObjects[i] : i \in 1..Len(SchemaObjects)},
                             !.migrations = {Migrations[i] : i \in 1..j}] :
            j \in 1..Len(Migrations)}

InitDb ==
    /\ fn_pc = "idle" /\ fn_in = <<>> /\ fn_out = <<>>
    /\ tree = {}
    /\ db \in [Targets -> DatabaseFiles]
    /\ dirs = {}
    /\ body = <<>>
    /\ meta = <<>>
    /\ created = [t \in Targets |-> [runs |-> 0, error |-> FALSE]]
    /\ run = NoRun

NextDb == \E t \in Targets : CreateDatabase(t)
SpecDb == InitDb /\ [][NextDb]_vars

\* C9: a run of create_database raises no error and leaves the whole schema (the nine
\* tables and the index) and exactly the six identifiers in grdb_migrations; a second
\* or later run on the same path leaves the schema and grdb_migrations as they were.
C9_IdempotentSchema ==
    [][ \A t \in Targets :
          created'[t] # created[t] =>
            /\ ~created'[t].error
            /\ db'[t].schema = Tables \cup Indexes
            /\ db'[t].migrations = {Migrations[k] : k \in 1..Len(Migrations)}
            /\ Cardinality(db'[t].migrations) = 6
            /\ created[t].runs >= 1 =>
                  /\ db'[t].schema = db[t].schema
                  /\ db'[t].migrations = db[t].migrations
      ]_vars

\* C9 witness: create_database has run twice on a path, without error
C9_Witness ==
    \E t \in Targets :
        /\ created[t].runs = 2 /\ ~created[t].error
        /\ Cardinality(db[t].migrations) = 6

(* ------------------------------------------------------------------ *)
(* Calls of sanitize_filename on bounded inputs                         *)
(* ------------------------------------------------------------------ *)
MaxLen == 2
PadBytes == 256

RECURSIVE Strings(_, _)
\* all strings over alphabet A of length at most n
Strings(A, n) ==
    IF n = 0 THEN {<<>>}
    ELSE LET S == Strings(A, n - 1)
         IN  S \cup {Append(s, c) : s \in {t \in S : Len(t) = n - 1}, c \in A}

\* control, space, '.', '/', ':', 'a', euro sign
SanChars == {9, Space, Dot, Slash, Colon, 97, 8364}
\* 'a', e-acute (2 bytes), euro sign (3 bytes), an emoji (4 bytes)
PadChars == {97, 233, 8364, 128512}
SanTails == {<<>>, <<Dot>>, <<Space>>, <<97>>}

\* c repeated up to PadBytes bytes
Pad(c) == [i \in 1..(PadBytes \div Utf8Width(c)) |-> c]

\* short strings, and strings around the byte limit
SanInputs ==
    Strings(SanChars, MaxLen + 1)
    \cup {pre \o Pad(c) \o post :
            pre \in Strings(SanChars, MaxLen - 1), c \in PadChars, post \in SanTails}

\* the importer's state plays no part in a call of a pure function
MainUnused ==
    /\ tree = {}
    /\ db = [t \in Targets |-> NoDatabase]
    /\ dirs = {}
    /\ body = <<>>
    /\ meta = <<>>
    /\ created = [t \in Targets |-> [runs |-> 0, error |-> FALSE]]
    /\ run = NoRun

InitSan ==
    /\ fn_pc = "call"
    /\ fn_in \in SanInputs
    /\ fn_out = <<>>
    /\ MainUnused

Sanitize ==
    /\ fn_pc = "call"
    /\ fn_out' = sanitize_filename(fn_in)
    /\ fn_pc' = "done"
    /\ UNCHANGED <<fn_in, main_vars>>

NextSan == Sanitize
SpecSan == InitSan /\ [][NextSan]_vars

\* C3: for every input string, sanitize_filename returns a string that contains no
\* '/', no ':' and no character with code 0 to 31, that is never empty, and whose
\* UTF-8 encoding is at most 255 bytes long.
C3_SanitizerOutput ==
    fn_pc = "done" =>
        /\ \A i \in 1..Len(fn_out) :
              fn_out[i] # 47 /\ fn_out[i] # 58 /\ ~(fn_out[i] >= 0 /\ fn_out[i] <= 31)
        /\ Len(fn_out) > 0
        /\ Utf8Len(fn_out) <= 255

\* C3 witness: an input over 255 bytes that holds a forbidden character came back
\* cut to exactly 255 bytes
C3_Witness ==
    /\ fn_pc = "done"
    /\ Utf8Len(fn_in) > 255
    /\ \E i \in 1..Len(fn_in) : fn_in[i] \in {47, 58, 9}
    /\ Utf8Len(fn_out) = 255

(* ------------------------------------------------------------------ *)
(* Calls of clean_title on bounded file names                           *)
(* ------------------------------------------------------------------ *)
MaxNameLen == 4
\* '0', '2', '_', '.', 'm', 'd', 'B', ' '
NameChars == {48, 50, Underscore, Dot, 109, 100, 66, Space}
TitleInputs == {s \o MdExt : s \in Strings(NameChars, MaxNameLen)}

InitTitle ==
    /\ fn_pc = "call"
    /\ fn_in \in TitleInputs
    /\ fn_out = <<>>
    /\ MainUnused

CleanTitle ==
    /\ fn_pc = "call"
    /\ fn_out' = clean_title(fn_in)
    /\ fn_pc' = "done"
    /\ UNCHANGED <<fn_in, main_vars>>

NextTitle == CleanTitle
SpecTitle == InitTitle /\ [][NextTitle]_vars

\* C10: for every file name ending in '.md', clean_title returns the name with only
\* that trailing extension removed, then with one leading all-digit segment and its
\* following underscore removed if present, then with the remaining underscores
\* replaced by spaces and each word capitalized.
C10_TitleCleaning ==
    (fn_pc = "done" /\ EndsWith(fn_in, <<46, 109, 100>>)) =>
        fn_out = JoinCapitalized(Words(UnderscoresToSpaces(StripNumericPrefix(
                     SubSeq(fn_in, 1, Len(fn_in) - 3)))))

====
